---- MODULE Spec2Model ----
(***************************************************************************)
(* A model of recognition/s4699389-VQVAE/modules.py: the VectorQuantizer   *)
(* layer, the shape behaviour of the Encoder / Decoder / VQVAE pipeline,   *)
(* model construction, the variance precomputation and the training loop.  *)
(*                                                                         *)
(* Tensors are nested sequences of integers (exact arithmetic), means are  *)
(* kept as fractions [num, den].  Indices stored in the state are 0-based  *)
(* as in the code; sequences are 1-based.                                  *)
(***************************************************************************)
EXTENDS Integers, Sequences, FiniteSets, TLC

VARIABLES
    \* VectorQuantizer
    codebook,           \* self.embedding.weight, K rows of D numbers
    commitment_loss,    \* self.commitment_loss, in quarters (1 = 0.25)
    inputs,             \* the argument of forward, layout BCHW
    vq_pc,              \* "ready" | "returned"
    vq_loss,            \* returned loss, a fraction
    e_latent_loss,      \* the commitment term, a fraction
    quantized,          \* returned straight-through grid, layout BCHW
    encodings,          \* returned (N, K) matrix
    encoding_indices,   \* returned (N) indices, 0-based
    \* VQVAE construction and forward (shapes)
    cfg,                \* the constructor arguments
    vq_status,          \* VectorQuantizer(K, D, beta): "new" | "built" | "error"
    m_pc,               \* VQVAE: "new" | "built" | "ctor_error" | "returned" | "fwd_error"
    in_shape,           \* shape of the argument of VQVAE.forward
    enc_shape,          \* shape of the Encoder's output
    out_shape,          \* shape of x_recon
    failed_at,          \* the layer that raised in VQVAE.forward, or "none"
    \* the script: variance precomputation and training loop
    train_loader,       \* sequence of batches, each a sequence of pixels
    num_epochs,
    pc,
    calls,              \* history: the calls made so far in the current iteration
    index,              \* batches consumed by the variance loop
    mean,
    meansq,
    count,
    data_variance,      \* a fraction once computed
    epoch,
    i,
    params,             \* version of model.parameters()
    grads,              \* the iterations whose backward is accumulated in .grad
    train_error         \* number of entries appended

vqVars == <<codebook, commitment_loss, inputs, vq_pc, vq_loss, e_latent_loss,
            quantized, encodings, encoding_indices>>
modelVars == <<cfg, vq_status, m_pc, in_shape, enc_shape, out_shape, failed_at>>
scriptVars == <<train_loader, num_epochs, pc, calls, index, mean, meansq, count,
                data_variance, epoch, i, params, grads, train_error>>
vars == <<vqVars, modelVars, scriptVars>>

-----------------------------------------------------------------------------
(* Bounds of the model. *)

MaxK == 3          \* codebook rows explored exhaustively
MaxCells == 2      \* B*H*W of the grids explored with every value
MaxSide == 2       \* B, H, W of the one-cell-marked grids
EmbeddingDims == {1, 2}
CodeVals == {0, 1}
InVals == {-1, 1}
Betas == {0, 1, 8} \* commitment weights in quarters: 0, 0.25 and 2
commitment_cost == 1   \* in quarters: 0.25

-----------------------------------------------------------------------------
(* Arithmetic helpers. *)

RECURSIVE SeqSum(_)
SeqSum(s) == IF s = <<>> THEN 0 ELSE s[1] + SeqSum(Tail(s))

Frac(n, d) == [num |-> n, den |-> d]
FracAdd(x, y) == Frac(x.num * y.den + y.num * x.den, x.den * y.den)
FracScale(n, d, x) == Frac(n * x.num, d * x.den)
FracEq(x, y) == x.num * y.den = y.num * x.den

-----------------------------------------------------------------------------
(* Tensor layout: shape, contiguous memory, view and permute. *)

Shape4(x) == <<Len(x), Len(x[1]), Len(x[1][1]), Len(x[1][1][1])>>

\* .contiguous(): the row-major memory of a 4-d tensor
Contiguous(x) ==
    LET s == Shape4(x) IN
    [m \in 1..(s[1] * s[2] * s[3] * s[4]) |->
        LET m0 == m - 1
            i4 == m0 % s[4]
            i3 == (m0 \div s[4]) % s[3]
            i2 == (m0 \div (s[4] * s[3])) % s[2]
            i1 == m0 \div (s[4] * s[3] * s[2])
        IN x[i1 + 1][i2 + 1][i3 + 1][i4 + 1]]

\* memory.view(-1, d)
View2(mem, d) ==
    [n \in 1..(Len(mem) \div d) |-> [j \in 1..d |-> mem[(n - 1) * d + j]]]

\* matrix.view(shape): the (N, D) matrix read back as a 4-d tensor
View4(mat, s) ==
    LET d == Len(mat[1])
        at(m0) == mat[(m0 \div d) + 1][(m0 % d) + 1]
    IN [a \in 1..s[1] |-> [b \in 1..s[2] |-> [c \in 1..s[3] |-> [e \in 1..s[4] |->
           at((((a - 1) * s[2] + (b - 1)) * s[3] + (c - 1)) * s[4] + (e - 1))]]]]

\* x.permute(0, 2, 3, 1): BCHW -> BHWC
PermuteBCHWtoBHWC(x) ==
    LET s == Shape4(x) IN
    [b \in 1..s[1] |-> [h \in 1..s[3] |-> [w \in 1..s[4] |->
        [c \in 1..s[2] |-> x[b][c][h][w]]]]]

\* mutant: .view in place of .permute, the memory is read in another order
ViewBHWCasBCHW(x) ==
    LET s == Shape4(x) IN
    View4(View2(Contiguous(x), s[4]), <<s[1], s[4], s[2], s[3]>>)

\* x.permute(0, 3, 1, 2): BHWC -> BCHW
PermuteBHWCtoBCHW(x) ==
    LET s == Shape4(x) IN
    [b \in 1..s[1] |-> [c \in 1..s[4] |-> [h \in 1..s[2] |->
        [w \in 1..s[3] |-> x[b][h][w][c]]]]]

-----------------------------------------------------------------------------
(* VectorQuantizer.forward *)

SumSquares(v) == SeqSum([j \in 1..Len(v) |-> v[j] * v[j]])
Dot(u, v) == SeqSum([j \in 1..Len(u) |-> u[j] * v[j]])

\* distances[n][k] = |q_n|^2 + |e_k|^2 - 2 q_n . e_k
Distances(flat_input, weight) ==
    [n \in 1..Len(flat_input) |-> [k \in 1..Len(weight) |->
        SumSquares(flat_input[n]) + SumSquares(weight[k])
            - 2 * Dot(flat_input[n], weight[k])]]

\* torch.argmin over one row: a left-to-right scan that keeps the first
\* minimal value; the result is 0-based.
RECURSIVE ArgminScan(_, _, _)
ArgminScan(row, k, best) ==
    IF k > Len(row) THEN best - 1
    ELSE ArgminScan(row, k + 1, IF row[k] < row[best] THEN k ELSE best)

\* mutant: the scan keeps the last minimal value
RECURSIVE ArgminScanLast(_, _, _)
ArgminScanLast(row, k, best) ==
    IF k > Len(row) THEN best - 1
    ELSE ArgminScanLast(row, k + 1, IF row[k] <= row[best] THEN k ELSE best)

ArgminLast(row) == ArgminScanLast(row, 2, 1)

Argmin(row) == ArgminScan(row, 2, 1)

\* mutant: the 0-based index is used as a 1-based column
ScatterOneBased(indices, K) ==
    [n \in 1..Len(indices) |-> [k \in 1..K |-> IF k = indices[n] THEN 1 ELSE 0]]

\* mutant: the 1 is written at the row's own number
ScatterByRow(indices, K) ==
    [n \in 1..Len(indices) |-> [k \in 1..K |-> IF k = n THEN 1 ELSE 0]]

\* encodings = zeros(N, K); encodings.scatter_(1, encoding_indices, 1)
Scatter(indices, K) ==
    [n \in 1..Len(indices) |-> [k \in 1..K |-> IF k - 1 = indices[n] THEN 1 ELSE 0]]

MatMul(a, b) ==
    [n \in 1..Len(a) |-> [j \in 1..Len(b[1]) |->
        SeqSum([k \in 1..Len(b) |-> a[n][k] * b[k][j]])]]

\* mutant: the differences are not squared
MeanError(x, y) ==
    LET mx == Contiguous(x)
        my == Contiguous(y)
    IN Frac(SeqSum([m \in 1..Len(mx) |-> mx[m] - my[m]]), Len(mx))

\* F.mse_loss(x, y): mean over all elements of (x - y)^2
MseLoss(x, y) ==
    LET mx == Contiguous(x)
        my == Contiguous(y)
    IN Frac(SeqSum([m \in 1..Len(mx) |-> (mx[m] - my[m]) * (mx[m] - my[m])]), Len(mx))

\* inputs + (quantized - inputs).detach(): the forward value
StraightThrough(x, q) ==
    LET s == Shape4(x) IN
    [a \in 1..s[1] |-> [b \in 1..s[2] |-> [c \in 1..s[3] |-> [e \in 1..s[4] |->
        x[a][b][c][e] + (q[a][b][c][e] - x[a][b][c][e])]]]]

\* loss = q_latent_loss + self.commitment_loss * e_latent_loss
TotalLoss(q_latent, beta, e_latent) == FracAdd(q_latent, FracScale(beta, 4, e_latent))

\* Let(e, F) is F(e) with e evaluated once.
Let(e, F(_)) == CHOOSE r \in {F(v) : v \in {e}} : TRUE

VQForward(weight, beta, x) ==
    Let(PermuteBCHWtoBHWC(x), LAMBDA nhwc :
    Let(View2(Contiguous(nhwc), Len(weight[1])), LAMBDA flat_input :
    Let(Distances(flat_input, weight), LAMBDA distances :
    Let([n \in 1..Len(distances) |-> Argmin(distances[n])], LAMBDA indices :
    Let(Scatter(indices, Len(weight)), LAMBDA enc :
    Let(MatMul(enc, weight), LAMBDA qflat :
    Let(View4(qflat, Shape4(nhwc)), LAMBDA quant :
    Let(MseLoss(quant, nhwc), LAMBDA e_latent :
    Let(MseLoss(quant, nhwc), LAMBDA q_latent :
    Let(StraightThrough(nhwc, quant), LAMBDA st :
       [loss |-> TotalLoss(q_latent, beta, e_latent),
        e_latent_loss |-> e_latent,
        quantized |-> PermuteBHWCtoBCHW(st),
        encodings |-> enc,
        encoding_indices |-> indices]))))))))))

Forward ==
    /\ vq_pc = "ready"
    /\ \E r \in {VQForward(codebook, commitment_loss, inputs)} :
        /\ vq_loss' = r.loss
        /\ e_latent_loss' = r.e_latent_loss
        /\ quantized' = r.quantized
        /\ encodings' = r.encodings
        /\ encoding_indices' = r.encoding_indices
    /\ vq_pc' = "returned"
    /\ UNCHANGED <<codebook, commitment_loss, inputs, modelVars, scriptVars>>

-----------------------------------------------------------------------------
(* Inputs of the VectorQuantizer runs. *)

Grids(B, D, H, W, vals) == [1..B -> [1..D -> [1..H -> [1..W -> vals]]]]

CellShapes(n) ==
    {s \in (1..n) \X (1..n) \X (1..n) : s[1] * s[2] * s[3] <= n}

\* the codebook <<0..0>>, e_1, ..., e_D: it quantizes a 0/1 grid with at
\* most one 1 per cell to itself
BasisCodebook(D) ==
    [k \in 1..(D + 1) |-> [j \in 1..D |-> IF k = j + 1 THEN 1 ELSE 0]]

\* the grid with v at position p and 0 elsewhere
MarkedGrid(B, D, H, W, p, v) ==
    [b \in 1..B |-> [c \in 1..D |-> [h \in 1..H |-> [w \in 1..W |->
        IF <<b, c, h, w>> = p THEN v ELSE 0]]]]

\* the codebook of the documented scenario
ScenarioCodebook == <<<<0, 0>>, <<10, 0>>, <<0, 10>>, <<10, 10>>>>

None == <<>>

VQIdle ==
    /\ codebook = None /\ commitment_loss = 0 /\ inputs = None
    /\ vq_pc = "idle" /\ vq_loss = None /\ e_latent_loss = None
    /\ quantized = None /\ encodings = None /\ encoding_indices = None

ModelIdle ==
    /\ cfg = None /\ vq_status = "idle" /\ m_pc = "idle"
    /\ in_shape = None /\ enc_shape = None /\ out_shape = None
    /\ failed_at = "none"

ScriptIdle ==
    /\ train_loader = None /\ num_epochs = 0 /\ pc = "idle" /\ calls = None
    /\ index = 0
    /\ mean = 0 /\ meansq = 0 /\ count = 0 /\ data_variance = None
    /\ epoch = 0 /\ i = 0 /\ params = 0 /\ grads = None /\ train_error = 0

\* every codebook and every batch of one-cell grids over small values,
\* under the script's commitment_cost
ExhaustiveInit ==
    \E K \in 1..MaxK, D \in EmbeddingDims, B \in 1..MaxCells :
        /\ codebook \in [1..K -> [1..D -> CodeVals]]
        /\ inputs \in Grids(B, D, 1, 1, InVals)
        /\ commitment_loss = commitment_cost

\* grids of every shape with one marked entry
MarkedInit ==
    \E D \in EmbeddingDims, s \in (1..MaxSide) \X (1..MaxSide) \X (1..MaxSide) :
    \E p \in (1..s[1]) \X (1..D) \X (1..s[2]) \X (1..s[3]), v \in {0, 1} :
        /\ codebook = BasisCodebook(D)
        /\ inputs = MarkedGrid(s[1], D, s[2], s[3], p, v)
        /\ commitment_loss \in Betas

\* the documented scenario, queries built from 1 and 9
ScenarioInit ==
    \E s \in CellShapes(MaxCells) :
        /\ codebook = ScenarioCodebook
        /\ inputs \in Grids(s[1], 2, s[2], s[3], {1, 9})
        /\ commitment_loss \in Betas

VQInit ==
    /\ ExhaustiveInit \/ MarkedInit \/ ScenarioInit
    /\ vq_pc = "ready"
    /\ vq_loss = None /\ e_latent_loss = None
    /\ quantized = None /\ encodings = None /\ encoding_indices = None
    /\ ModelIdle /\ ScriptIdle

VQNext == Forward

-----------------------------------------------------------------------------
(* Construction: VectorQuantizer.__init__, Encoder, Decoder, VQVAE.__init__ *)

\* torch.empty(dims), the allocation behind every parameter: a negative
\* dimension raises, a zero dimension gives an empty tensor.
TensorAllocs(dims) == \A d \in 1..Len(dims) : dims[d] >= 0

\* nn.Embedding(K, D) allocates a (K, D) weight.
EmbeddingInit(K, D) == TensorAllocs(<<K, D>>)

\* nn.Conv2d / nn.ConvTranspose2d(in, out, kernel_size = k), groups = 1
ConvInit(in_channels, out_channels, k) ==
    TensorAllocs(<<out_channels, in_channels, k, k>>)

\* mutant: the bounds of uniform_ do not divide by num_embeddings
VectorQuantizerInitNoDivision(K, D) ==
    IF ~EmbeddingInit(K, D) THEN "error" ELSE "built"

\* VectorQuantizer.__init__: the embedding, then uniform_(-1 / K, 1 / K),
\* whose bounds divide by num_embeddings.
VectorQuantizerInit(K, D) ==
    IF ~EmbeddingInit(K, D) THEN "error"
    ELSE IF K = 0 THEN "error"
    ELSE "built"

ResidualInit(in_channels, hiddens, residual_hiddens) ==
    /\ ConvInit(in_channels, residual_hiddens, 3)
    /\ ConvInit(residual_hiddens, hiddens, 1)

EncoderInit(in_channels, hiddens, residual_hiddens) ==
    /\ ConvInit(in_channels, hiddens \div 2, 4)
    /\ ConvInit(hiddens \div 2, hiddens, 4)
    /\ ResidualInit(hiddens, hiddens, residual_hiddens)
    /\ ResidualInit(hiddens, hiddens, residual_hiddens)

DecoderInit(in_channels, hiddens, residual_hiddens) ==
    /\ ConvInit(in_channels, hiddens, 3)
    /\ ResidualInit(hiddens, hiddens, residual_hiddens)
    /\ ResidualInit(hiddens, hiddens, residual_hiddens)
    /\ ConvInit(hiddens, hiddens \div 2, 4)
    /\ ConvInit(hiddens \div 2, 1, 4)

VQVAEInit(c) ==
    IF /\ EncoderInit(c.num_channels, c.num_hiddens, c.num_residual_hiddens)
       /\ ConvInit(c.num_hiddens, c.embedding_dim, 1)
       /\ VectorQuantizerInit(c.num_embeddings, c.embedding_dim) = "built"
       /\ DecoderInit(c.embedding_dim, c.num_hiddens, c.num_residual_hiddens)
    THEN "built" ELSE "ctor_error"

ConstructVQ ==
    /\ vq_status = "new"
    /\ vq_status' = VectorQuantizerInit(cfg.num_embeddings, cfg.embedding_dim)
    /\ UNCHANGED <<cfg, m_pc, in_shape, enc_shape, out_shape, failed_at,
                   vqVars, scriptVars>>

ConstructVQVAE ==
    /\ m_pc = "new"
    /\ m_pc' = VQVAEInit(cfg)
    /\ UNCHANGED <<cfg, vq_status, in_shape, enc_shape, out_shape, failed_at,
                   vqVars, scriptVars>>

-----------------------------------------------------------------------------
(* VQVAE.forward on shapes <<B, C, H, W>>. *)

Ok(shape) == [ok |-> TRUE, shape |-> shape]
Raise == [ok |-> FALSE, shape |-> <<>>]

\* mutant: no check that the padded input covers the kernel
Conv2dShapeUnchecked(l, x) ==
    IF x[2] # l.cin THEN Raise
    ELSE Ok(<<x[1], l.cout, (x[3] + 2 * l.p - l.k) \div l.s + 1,
                            (x[4] + 2 * l.p - l.k) \div l.s + 1>>)

\* nn.Conv2d: the channel count must match; the padded input must cover the
\* kernel; the output side is floor((side + 2p - k) / s) + 1.
Conv2dShape(l, x) ==
    IF x[2] # l.cin THEN Raise
    ELSE IF x[3] + 2 * l.p < l.k \/ x[4] + 2 * l.p < l.k THEN Raise
    ELSE Ok(<<x[1], l.cout, (x[3] + 2 * l.p - l.k) \div l.s + 1,
                            (x[4] + 2 * l.p - l.k) \div l.s + 1>>)

\* mutant: the padding is not subtracted
ConvTranspose2dShapeNoPad(l, x) ==
    IF x[2] # l.cin THEN Raise
    ELSE Ok(<<x[1], l.cout, (x[3] - 1) * l.s + l.k, (x[4] - 1) * l.s + l.k>>)

\* nn.ConvTranspose2d: the output side is (side - 1) s - 2p + k.
ConvTranspose2dShape(l, x) ==
    IF x[2] # l.cin THEN Raise
    ELSE Ok(<<x[1], l.cout, (x[3] - 1) * l.s - 2 * l.p + l.k,
                            (x[4] - 1) * l.s - 2 * l.p + l.k>>)

Conv(name, cin, cout, k, s, p) ==
    [name |-> name, kind |-> "conv", cin |-> cin, cout |-> cout,
     k |-> k, s |-> s, p |-> p, mid |-> 0]
ConvT(name, cin, cout, k, s, p) ==
    [name |-> name, kind |-> "convT", cin |-> cin, cout |-> cout,
     k |-> k, s |-> s, p |-> p, mid |-> 0]
ReLU(name) ==
    [name |-> name, kind |-> "relu", cin |-> 0, cout |-> 0,
     k |-> 0, s |-> 0, p |-> 0, mid |-> 0]
Res(name, cin, cout, mid) ==
    [name |-> name, kind |-> "residual", cin |-> cin, cout |-> cout,
     k |-> 0, s |-> 0, p |-> 0, mid |-> mid]
Quant(name, dim) ==
    [name |-> name, kind |-> "vq", cin |-> dim, cout |-> dim,
     k |-> 0, s |-> 0, p |-> 0, mid |-> 0]

\* Residual.forward: x + block(x), block = ReLU, 3x3 conv, ReLU, 1x1 conv
ResidualShape(l, x) ==
    Let(Conv2dShape(Conv("c3", l.cin, l.mid, 3, 1, 1), x), LAMBDA a :
        IF ~a.ok THEN Raise
        ELSE Let(Conv2dShape(Conv("c1", l.mid, l.cout, 1, 1, 0), a.shape), LAMBDA b :
            IF ~b.ok \/ b.shape # x THEN Raise ELSE Ok(x)))

\* VectorQuantizer.forward: view(-1, embedding_dim) of the BHWC grid and
\* the product with weight.t() need D channels; the grid keeps its shape.
VQShape(l, x) == IF x[2] # l.cin THEN Raise ELSE Ok(x)

ApplyLayer(l, x) ==
    CASE l.kind = "conv" -> Conv2dShape(l, x)
      [] l.kind = "convT" -> ConvTranspose2dShape(l, x)
      [] l.kind = "relu" -> Ok(x)
      [] l.kind = "residual" -> ResidualShape(l, x)
      [] l.kind = "vq" -> VQShape(l, x)

EncoderLayers(c) ==
    << Conv("encoder.conv1", c.num_channels, c.num_hiddens \div 2, 4, 2, 1),
       ReLU("encoder.relu1"),
       Conv("encoder.conv2", c.num_hiddens \div 2, c.num_hiddens, 4, 2, 1),
       Res("encoder.residualblock1", c.num_hiddens, c.num_hiddens, c.num_residual_hiddens),
       Res("encoder.residualblock2", c.num_hiddens, c.num_hiddens, c.num_residual_hiddens) >>

DecoderLayers(c) ==
    << Conv("decoder.conv1", c.embedding_dim, c.num_hiddens, 3, 1, 1),
       Res("decoder.residualblock1", c.num_hiddens, c.num_hiddens, c.num_residual_hiddens),
       Res("decoder.residualblock2", c.num_hiddens, c.num_hiddens, c.num_residual_hiddens),
       ConvT("decoder.convT1", c.num_hiddens, c.num_hiddens \div 2, 4, 2, 1),
       ReLU("decoder.relu1"),
       ConvT("decoder.convT2", c.num_hiddens \div 2, 1, 4, 2, 1) >>

VQVAELayers(c) ==
    EncoderLayers(c)
    \o << Conv("pre_vq_conv", c.num_hiddens, c.embedding_dim, 1, 1, 0),
          Quant("vqvae", c.embedding_dim) >>
    \o DecoderLayers(c)

\* Runs the layers in order; an exception leaves through the caller.
RECURSIVE RunLayers(_, _, _, _)
RunLayers(layers, k, x, enc) ==
    IF k > Len(layers) THEN [ok |-> TRUE, shape |-> x, enc |-> enc, failed_at |-> "none"]
    ELSE Let(ApplyLayer(layers[k], x), LAMBDA y :
        IF ~y.ok
        THEN [ok |-> FALSE, shape |-> None, enc |-> enc, failed_at |-> layers[k].name]
        ELSE RunLayers(layers, k + 1, y.shape,
                       IF layers[k].name = "encoder.residualblock2" THEN y.shape ELSE enc))

VQVAEForwardShape(c, x) == RunLayers(VQVAELayers(c), 1, x, None)

MaxBatch == 2
MaxSide4 == 9      \* H and W of the images given to VQVAE.forward
MaxEmb == 2        \* num_embeddings and embedding_dim range over -1..MaxEmb
ChannelCounts == {1, 2}
HiddenCounts == {2, 4}

InputShapes == (1..MaxBatch) \X ChannelCounts \X (1..MaxSide4) \X (1..MaxSide4)

Configs ==
    [num_channels : ChannelCounts, num_hiddens : HiddenCounts,
     num_residual_hiddens : {1}, num_embeddings : -1..MaxEmb,
     embedding_dim : -1..MaxEmb]

\* forward is followed for models with a non-empty codebook row
VQVAEForward ==
    /\ m_pc = "built"
    /\ cfg.embedding_dim >= 1
    /\ \E x \in InputShapes : \E r \in {VQVAEForwardShape(cfg, x)} :
        /\ in_shape' = x
        /\ enc_shape' = r.enc
        /\ out_shape' = r.shape
        /\ failed_at' = r.failed_at
        /\ m_pc' = IF r.ok THEN "returned" ELSE "fwd_error"
    /\ UNCHANGED <<cfg, vq_status, vqVars, scriptVars>>

ModelInit ==
    /\ cfg \in Configs
    /\ vq_status = "new" /\ m_pc = "new"
    /\ in_shape = None /\ enc_shape = None /\ out_shape = None
    /\ failed_at = "none"
    /\ VQIdle /\ ScriptIdle

ModelNext == ConstructVQ \/ ConstructVQVAE \/ VQVAEForward

-----------------------------------------------------------------------------
(* The script: variance precomputation, construction, training loop. *)

MaxData == 3       \* images in the training set (one pixel each)
MaxEpochs == 1     \* num_epochs ranges over 0..MaxEpochs
PixelVals == {0, 1, 2}
BatchSizes == {1, 2}

\* A DataLoader over the data set: batches of batch_size, the last one shorter.
RECURSIVE Batches(_, _)
Batches(data, batch_size) ==
    IF Len(data) <= batch_size THEN <<data>>
    ELSE <<SubSeq(data, 1, batch_size)>>
         \o Batches(SubSeq(data, batch_size + 1, Len(data)), batch_size)

Loaders ==
    {Batches(d, b) : d \in UNION {[1..n -> PixelVals] : n \in 1..MaxData},
                     b \in BatchSizes}

\* for index, data in enumerate(train_loader): the three accumulators
VarianceBatch ==
    /\ pc = "variance"
    /\ index < Len(train_loader)
    /\ \E data \in {train_loader[index + 1]} :
        /\ mean' = SeqSum(data)
        /\ meansq' = meansq + SumSquares(data)
        /\ count' = count + Len(data)
    /\ index' = index + 1
    /\ UNCHANGED <<train_loader, num_epochs, pc, calls, data_variance, epoch, i,
                   params, grads, train_error, vqVars, modelVars>>

\* total_mean = mean / count; total_var = meansq / count - total_mean ** 2
TotalVar(sum, sumsq, n) == Frac(sumsq * n - sum * sum, n * n)

VarianceDone ==
    /\ pc = "variance"
    /\ index = Len(train_loader)
    /\ data_variance' = TotalVar(mean, meansq, count)
    /\ pc' = "construct"
    /\ UNCHANGED <<train_loader, num_epochs, calls, index, mean, meansq, count,
                   epoch, i, params, grads, train_error, vqVars, modelVars>>

\* model = VQVAE(...); optimizer = optim.Adam(model.parameters(), ...)
Construct ==
    /\ pc = "construct"
    /\ params' = 0
    /\ grads' = <<>>
    /\ epoch' = 0
    /\ pc' = "epoch"
    /\ UNCHANGED <<train_loader, num_epochs, calls, index, mean, meansq, count,
                   data_variance, i, train_error, vqVars, modelVars>>

\* for epoch in range(num_epochs)
EpochStart ==
    /\ pc = "epoch"
    /\ epoch < num_epochs
    /\ i' = 0
    /\ pc' = "batch"
    /\ UNCHANGED <<train_loader, num_epochs, calls, index, mean, meansq, count,
                   data_variance, epoch, params, grads, train_error, vqVars, modelVars>>

TrainingDone ==
    /\ pc = "epoch"
    /\ epoch = num_epochs
    /\ pc' = "done"
    /\ UNCHANGED <<train_loader, num_epochs, calls, index, mean, meansq, count,
                   data_variance, epoch, i, params, grads, train_error, vqVars, modelVars>>

\* for i, data in enumerate(train_loader): data = data.to(device)
BatchStart ==
    /\ pc = "batch"
    /\ i < Len(train_loader)
    /\ calls' = <<>>
    /\ pc' = "zero_grad"
    /\ UNCHANGED <<train_loader, num_epochs, index, mean, meansq, count,
                   data_variance, epoch, i, params, grads, train_error, vqVars, modelVars>>

\* train_loss = np.mean(train_error[-300:]) and the next epoch
EpochEnd ==
    /\ pc = "batch"
    /\ i = Len(train_loader)
    /\ epoch' = epoch + 1
    /\ pc' = "epoch"
    /\ UNCHANGED <<train_loader, num_epochs, calls, index, mean, meansq, count,
                   data_variance, i, params, grads, train_error, vqVars, modelVars>>

\* mutant: the gradients are not cleared
KeptGrads(g) == g

\* optimizer.zero_grad(): what the gradients hold afterwards
ZeroedGrads(g) == <<>>

ZeroGrad ==
    /\ pc = "zero_grad"
    /\ grads' = ZeroedGrads(grads)
    /\ calls' = Append(calls, "zero_grad")
    /\ pc' = "forward"
    /\ UNCHANGED <<train_loader, num_epochs, index, mean, meansq, count,
                   data_variance, epoch, i, params, train_error, vqVars, modelVars>>

\* vq_loss, data_recon = model(data): the parameters afterwards
ParamsAfterForward(p) == p

TrainForward ==
    /\ pc = "forward"
    /\ params' = ParamsAfterForward(params)
    /\ calls' = Append(calls, "forward")
    /\ pc' = "loss"
    /\ UNCHANGED <<train_loader, num_epochs, index, mean, meansq, count,
                   data_variance, epoch, i, grads, train_error, vqVars, modelVars>>

\* recon_error = F.mse_loss(data_recon, data) / data_variance
\* loss = recon_error + vq_loss
CombinedLoss ==
    /\ pc = "loss"
    /\ calls' = Append(calls, "loss")
    /\ pc' = "backward"
    /\ UNCHANGED <<train_loader, num_epochs, index, mean, meansq, count,
                   data_variance, epoch, i, params, grads, train_error, vqVars, modelVars>>

\* loss.backward() adds this iteration's gradient to every .grad
Backward ==
    /\ pc = "backward"
    /\ grads' = Append(grads, <<epoch, i>>)
    /\ calls' = Append(calls, "backward")
    /\ pc' = "step"
    /\ UNCHANGED <<train_loader, num_epochs, index, mean, meansq, count,
                   data_variance, epoch, i, params, train_error, vqVars, modelVars>>

\* optimizer.step()
OptimizerStep ==
    /\ pc = "step"
    /\ params' = params + 1
    /\ calls' = Append(calls, "step")
    /\ pc' = "append"
    /\ UNCHANGED <<train_loader, num_epochs, index, mean, meansq, count,
                   data_variance, epoch, i, grads, train_error, vqVars, modelVars>>

\* train_error.append(recon_error.item())
AppendError ==
    /\ pc = "append"
    /\ train_error' = train_error + 1
    /\ i' = i + 1
    /\ pc' = "batch"
    /\ UNCHANGED <<train_loader, num_epochs, calls, index, mean, meansq, count,
                   data_variance, epoch, params, grads, vqVars, modelVars>>

ScriptInit ==
    /\ train_loader \in Loaders
    /\ num_epochs \in 0..MaxEpochs
    /\ pc = "variance" /\ calls = <<>>
    /\ index = 0 /\ mean = 0 /\ meansq = 0 /\ count = 0
    /\ data_variance = None
    /\ epoch = 0 /\ i = 0 /\ params = 0 /\ grads = <<>> /\ train_error = 0
    /\ VQIdle /\ ModelIdle

ScriptNext ==
    \/ VarianceBatch \/ VarianceDone \/ Construct
    \/ EpochStart \/ TrainingDone \/ BatchStart \/ EpochEnd
    \/ ZeroGrad \/ TrainForward \/ CombinedLoss \/ Backward
    \/ OptimizerStep \/ AppendError

-----------------------------------------------------------------------------

Init == VQInit \/ ModelInit \/ ScriptInit

Next == VQNext \/ ModelNext \/ ScriptNext

Spec == Init /\ [][Next]_vars

-----------------------------------------------------------------------------
(* Properties of VectorQuantizer.forward. *)

VQReturned == vq_pc = "returned"

\* the query vector of batch item b, spatial cell (h, w), read from BCHW
CellQuery(x, b, h, w) == [c \in 1..Len(x[b]) |-> x[b][c][h][w]]

\* its row (b*H + h)*W + w in the flattened vector set, as a 1-based position
CellRow(b, h, w, H, W) == ((b - 1) * H + (h - 1)) * W + (w - 1) + 1

SqDist(q, e) == SeqSum([j \in 1..Len(q) |-> (q[j] - e[j]) * (q[j] - e[j])])

ExpandedDist(q, e) == SumSquares(q) + SumSquares(e) - 2 * Dot(q, e)

Cells(x) == (1..Len(x)) \X (1..Len(x[1][1])) \X (1..Len(x[1][1][1]))

\* C1: every assignment is the smallest index whose codebook row is at
\* minimal squared Euclidean distance (in the expanded form, which is the
\* direct sum of squared differences) from the query; with the documented
\* codebook, query [1,1] is assigned 0 and query [9,9] is assigned 3.
C1_NearestLowestIndex ==
    VQReturned =>
        \A s \in {Shape4(inputs)} : \A p \in Cells(inputs) :
        \A q \in {CellQuery(inputs, p[1], p[2], p[3])} :
        \A a \in {encoding_indices[CellRow(p[1], p[2], p[3], s[3], s[4])]} :
            /\ a \in 0..(Len(codebook) - 1)
            /\ \A k \in 0..(Len(codebook) - 1) :
                \A da \in {ExpandedDist(q, codebook[a + 1])} :
                \A dk \in {ExpandedDist(q, codebook[k + 1])} :
                    /\ da <= dk
                    /\ k < a => da < dk
                    /\ dk = SqDist(q, codebook[k + 1])
            /\ (codebook = ScenarioCodebook /\ q = <<1, 1>>) => a = 0
            /\ (codebook = ScenarioCodebook /\ q = <<9, 9>>) => a = 3

\* a tie between two different codebook rows, resolved to the lower index
C1_Witness ==
    /\ VQReturned
    /\ \E s \in {Shape4(inputs)} : \E p \in Cells(inputs) :
       \E q \in {CellQuery(inputs, p[1], p[2], p[3])} :
       \E a \in {encoding_indices[CellRow(p[1], p[2], p[3], s[3], s[4])]} :
       \E k \in 1..Len(codebook) :
            /\ k > a + 1
            /\ codebook[k] # codebook[a + 1]
            /\ SqDist(q, codebook[k]) = SqDist(q, codebook[a + 1])

\* C2: every assignment lies in [0, K) and row n of the (N, K) encodings
\* holds exactly one 1, at column encoding_indices[n], and 0 elsewhere.
C2_OneHot ==
    VQReturned =>
        \A s \in {Shape4(inputs)} : \A K \in {Len(codebook)} :
            /\ Len(encoding_indices) = s[1] * s[3] * s[4]
            /\ Len(encodings) = s[1] * s[3] * s[4]
            /\ \A n \in 1..Len(encodings) :
                /\ encoding_indices[n] \in 0..(K - 1)
                /\ Len(encodings[n]) = K
                /\ \A k \in 1..K :
                    encodings[n][k] = IF k - 1 = encoding_indices[n] THEN 1 ELSE 0
                /\ Cardinality({k \in 1..K : encodings[n][k] = 1}) = 1

C2_Witness ==
    /\ VQReturned
    /\ Len(codebook) >= 2
    /\ Len(encoding_indices) >= 2
    /\ encoding_indices[1] # encoding_indices[2]

C8_LossNonNegative ==
    (VQReturned /\ commitment_loss >= 0) =>
        /\ e_latent_loss.den > 0 /\ e_latent_loss.num >= 0
        /\ vq_loss.den > 0 /\ vq_loss.num >= 0

C8_Witness ==
    /\ VQReturned
    /\ commitment_loss > 0
    /\ e_latent_loss.num > 0
    /\ vq_loss.num > e_latent_loss.num

ColumnSum(enc, k) == SeqSum([n \in 1..Len(enc) |-> enc[n][k]])

AllQueriesEqual(x) ==
    \A p1, p2 \in Cells(x) :
        CellQuery(x, p1[1], p1[2], p1[3]) = CellQuery(x, p2[1], p2[2], p2[3])

\* C9: when all N query vectors are equal, the column sums of the
\* encodings are N in one column and 0 in the other K - 1.
C9_UsageHistogram ==
    (VQReturned /\ AllQueriesEqual(inputs)) =>
        \E k \in 1..Len(codebook) :
            /\ ColumnSum(encodings, k) = Len(encodings)
            /\ \A j \in 1..Len(codebook) : j # k => ColumnSum(encodings, j) = 0

C9_Witness ==
    /\ VQReturned
    /\ AllQueriesEqual(inputs)
    /\ Len(encodings) >= 2
    /\ Len(codebook) >= 2
    /\ encoding_indices[1] > 0

-----------------------------------------------------------------------------
(* Properties of construction and of VQVAE.forward. *)

Forwarded == m_pc \in {"returned", "fwd_error"}

\* C4: an input (B, 1, H, W) with H and W divisible by 4, given to a model
\* built for one channel, is encoded to an (H/4, W/4) grid and
\* reconstructed with shape exactly (B, 1, H, W).
C4_RoundTripShape ==
    (/\ Forwarded
     /\ cfg.num_channels = 1 /\ in_shape[2] = 1
     /\ in_shape[3] % 4 = 0 /\ in_shape[4] % 4 = 0) =>
        /\ m_pc = "returned"
        /\ enc_shape = <<in_shape[1], cfg.num_hiddens, in_shape[3] \div 4, in_shape[4] \div 4>>
        /\ out_shape = in_shape

C4_Witness ==
    /\ m_pc = "returned"
    /\ cfg.num_channels = 1
    /\ in_shape = <<2, 1, 8, 4>>
    /\ out_shape = <<2, 1, 8, 4>>

BadInput ==
    \/ in_shape[2] # cfg.num_channels
    \/ in_shape[3] % 4 # 0
    \/ in_shape[4] % 4 # 0

\* C5 as stated: an input with a wrong channel count, or with H or W not
\* divisible by 4, never returns from forward; it raises at a convolution.
C5_BadInputRaises ==
    (Forwarded /\ BadInput) =>
        /\ m_pc = "fwd_error"
        /\ failed_at \in {"encoder.conv1", "encoder.conv2"}

\* C5 as amended: a wrong channel count raises at encoder.conv1, H or W
\* below 4 raises at encoder.conv1 or encoder.conv2, and every other
\* input returns, with a reconstruction of shape (B, 1, 4*(H div 4), 4*(W div 4)).
C5_ForwardOutcome ==
    Forwarded =>
        /\ in_shape[2] # cfg.num_channels =>
            m_pc = "fwd_error" /\ failed_at = "encoder.conv1"
        /\ (in_shape[2] = cfg.num_channels /\ (in_shape[3] < 4 \/ in_shape[4] < 4)) =>
            m_pc = "fwd_error" /\ failed_at \in {"encoder.conv1", "encoder.conv2"}
        /\ (in_shape[2] = cfg.num_channels /\ in_shape[3] >= 4 /\ in_shape[4] >= 4) =>
            /\ m_pc = "returned"
            /\ out_shape = <<in_shape[1], 1, 4 * (in_shape[3] \div 4),
                                             4 * (in_shape[4] \div 4)>>

\* an input with H not divisible by 4 that returned, with another shape
C5_Witness ==
    /\ m_pc = "returned"
    /\ in_shape[3] % 4 # 0
    /\ out_shape # in_shape

\* C6 as stated: num_embeddings <= 0 or embedding_dim <= 0 fails the
\* construction of the VectorQuantizer and of the VQVAE.
C6_DegenerateFails ==
    (m_pc # "idle" /\ (cfg.num_embeddings <= 0 \/ cfg.embedding_dim <= 0)) =>
        /\ vq_status \in {"built", "error"} => vq_status = "error"
        /\ m_pc # "new" => m_pc = "ctor_error"

\* C6 as amended: the VectorQuantizer fails to build exactly when
\* num_embeddings <= 0 or embedding_dim < 0, and then the VQVAE fails too;
\* with embedding_dim = 0 and num_embeddings >= 1 the VectorQuantizer is built.
C6_ConstructionOutcome ==
    m_pc # "idle" =>
        /\ vq_status \in {"built", "error"} =>
            (vq_status = "error" <=> (cfg.num_embeddings <= 0 \/ cfg.embedding_dim < 0))
        /\ (m_pc # "new" /\ (cfg.num_embeddings <= 0 \/ cfg.embedding_dim < 0)) =>
            m_pc = "ctor_error"

C6_Witness ==
    /\ vq_status = "built"
    /\ cfg.embedding_dim = 0
    /\ cfg.num_embeddings >= 1

-----------------------------------------------------------------------------
(* Properties of the script. *)

\* C7: the parameters change only in optimizer.step(), which comes after
\* zero_grad, forward, the combined loss and backward of the same
\* iteration, in this order, with exactly this iteration's backward
\* accumulated in the gradients; forward leaves the codebook as it is.
C7_TrainingProtocol ==
    [][/\ codebook' = codebook
       /\ params' # params =>
            /\ pc = "step"
            /\ calls = <<"zero_grad", "forward", "loss", "backward">>
            /\ grads = << <<epoch, i>> >>]_vars

\* the second optimizer step has been taken
C7_Witness ==
    /\ pc = "append"
    /\ params = 2
    /\ calls = <<"zero_grad", "forward", "loss", "backward", "step">>

RECURSIVE Concat(_)
Concat(ss) == IF ss = <<>> THEN <<>> ELSE ss[1] \o Concat(Tail(ss))

\* (sum of squares / count) - (sum / count)^2 over all pixels
PopulationVariance(pixels) ==
    Frac(SumSquares(pixels) * Len(pixels) - SeqSum(pixels) * SeqSum(pixels),
         Len(pixels) * Len(pixels))

\* C10: data_variance is the population variance of all training pixels.
C10_DataVariance ==
    pc \in {"construct", "epoch", "batch", "zero_grad", "forward", "loss",
            "backward", "step", "append", "done"} =>
        FracEq(data_variance, PopulationVariance(Concat(train_loader)))

====
